---- MODULE Spec2Model ----
(***************************************************************************)
(* Model of rest-mcp-server: the MongoDB collection manager                *)
(* (src/src/mongo-tools.ts) and the MCP tool handlers and process entry    *)
(* point (src/unnamed/part_000).                                           *)
(*                                                                         *)
(* Execution model.  Node runs the program on one thread.  A callback      *)
(* (a tool invocation read from stdin, a signal, the completion of a       *)
(* pending driver operation) runs until its first await; the continuation  *)
(* of an await on an already settled promise is a microtask, and the       *)
(* microtask queue is drained before the next stdin or signal callback is  *)
(* taken.  Every call is a process with a position (pc):                   *)
(*   connOuter/connInner  awaiting this.client.connect()         (line 15) *)
(*   atOuter/atInner      connect() settled, continuation queued (56, 45)  *)
(*   listIO               awaiting db.listCollections().toArray()(line 47) *)
(*   storeIO              awaiting db.createCollection/dropCollection      *)
(*   closeIO              awaiting this.client.close()           (line 22) *)
(*   atExit               cleanup() settled, process.exit(0) queued        *)
(* New invocations and signals are taken only when no continuation is      *)
(* queued; completions of pending driver operations may arrive together    *)
(* (one socket read can settle several), so they are not so restricted.    *)
(* Continuations that touch no shared state (a catch that rewraps an       *)
(* error, a handler that builds its envelope) are folded into the step     *)
(* that settles them.  A call that has ended keeps its result in its       *)
(* record: the run is the sequence of the calls, in the order they began.  *)
(*                                                                         *)
(* Messages are sequences of tokens: the template literal                  *)
(* `Failed to create collection '${x}': ${inner}` is                       *)
(* <<"Failed to create collection", x>> \o inner.                          *)
(***************************************************************************)
EXTENDS Integers, Sequences, FiniteSets, TLC

\* Number of calls (tool invocations, cleanup calls, signals) in one run.
MaxProcs == 4
\* Number of MongoClient objects that can be constructed in one run.
MaxClients == 3

Procs == 1..MaxProcs
ClientIds == 1..MaxClients
\* Collection names the callers pass.
Names == {"a", "b"}
\* The name overlapping calls contend for.
RaceNames == {"a"}

ToolKinds == {"list", "create", "drop"}

VARIABLES
  client,   \* MongoDBManager.client: 0 is null, else the id of a MongoClient
  db,       \* MongoDBManager.db: 0 is null, else the id of the client it came from
  cstate,   \* every MongoClient object: none (not constructed), connecting,
            \* connected, failed, closed
  colls,    \* the collections of the database (in the store)
  procs,    \* the calls: kind, argument, position, locals, result, envelope
  exited,   \* process.exit(0) has run
  http      \* the last HTTP tool handler invocation: inputs and result

vars == <<client, db, cstate, colls, procs, exited, http>>

----------------------------------------------------------------------------
\* Driver and runtime error messages (error.message of what is thrown).
ErrNotConnected == <<"Database not connected. Call connect() first.">>
ErrNullClient == <<"Cannot read properties of null (reading 'db')">>
ErrConnect == <<"driver: connect failed">>
ErrDriver == <<"driver: operation failed">>
ErrClose == <<"driver: close failed">>
ErrExists == <<"driver: collection already exists">>
ErrNsNotFound == <<"driver: ns not found">>

IdleProc ==
  [kind |-> "none", pc |-> "idle", name |-> "", c |-> 0, h |-> 0, q |-> 0,
   nstore |-> 0, fn |-> "none", msg |-> <<>>, list |-> {}, out |-> <<>>]

\* A continuation is queued for the call (an await on a settled promise).
Ready(r) == r.pc \in {"atOuter", "atInner", "atExit"}
NoMicrotask == \A p \in Procs : ~Ready(procs[p])
\* The calls are numbered in the order they begin.
IsNext(p) == procs[p].pc = "idle" /\ \A i \in 1..(p - 1) : procs[i].pc # "idle"

Min(S) == CHOOSE x \in S : \A y \in S : x <= y
FreeIds == {c \in ClientIds : cstate[c] = "none"}
\* A client that was constructed and not closed.
Open(c) == cstate[c] \in {"connecting", "connected", "failed"}

----------------------------------------------------------------------------
\* mongo-tools.ts: the pure pieces of the tool functions.

\* connect(), line 13: a client is constructed only if none is held.
NeedsClient(cl) == cl = 0

\* getDb(), line 29.
GetDbThrows(d) == d = 0

\* Faulty variants of the existence check: one that never finds the name
\* (a listing compared by object, not by name), and one with the test inverted.
IncludesNever(snap, x) == x \in {}
IncludesInverted(snap, x) == x \notin snap

\* existingCollections.includes(collectionName), lines 61 and 80.
Includes(snap, x) == x \in snap

MsgExists(x) == <<"Collection", x, "already exists">>
MsgCreated(x) == <<"Collection", x, "created successfully">>
MsgMissing(x) == <<"Collection", x, "does not exist">>
MsgDropped(x) == <<"Collection", x, "dropped successfully">>

\* catch of listCollections, line 50.
ListCatch(e) == <<"Failed to list collections:">> \o e
\* Faulty variant of the catch of createCollection: every error of the
\* create is reported as the collection existing.
CreateCatchAsExists(x, e) == <<"Collection", x, "already exists">>

\* catch of createCollection, line 69.
CreateCatch(x, e) == <<"Failed to create collection", x>> \o e
\* catch of dropCollection, line 88.
DropCatch(x, e) == <<"Failed to drop collection", x>> \o e

\* The message a tool function throws for an error e raised at the given
\* stage: "inner" is inside listCollections (its own catch wraps first, and
\* createCollection/dropCollection wrap again), "outer" is in the function's
\* own body.
Thrown(kind, x, stage, e) ==
  CASE kind = "list" -> ListCatch(e)
    [] kind = "create" ->
         CreateCatch(x, IF stage = "inner" THEN ListCatch(e) ELSE e)
    [] kind = "drop" ->
         DropCatch(x, IF stage = "inner" THEN ListCatch(e) ELSE e)
    [] OTHER -> e

\* part_000: the text of the envelope of the three database handlers.
HandlerText(kind, fn, msg, list) ==
  CASE kind = "list" /\ fn = "return" ->
         IF Cardinality(list) > 0 THEN <<"Collections in database:">>
         ELSE <<"No collections found in the database">>
    [] kind = "list" /\ fn = "throw" -> <<"Error listing collections:">> \o msg
    [] kind = "create" /\ fn = "return" -> msg
    [] kind = "create" /\ fn = "throw" -> <<"Error creating collection:">> \o msg
    [] kind = "drop" /\ fn = "return" -> msg
    [] kind = "drop" /\ fn = "throw" -> <<"Error dropping collection:">> \o msg
    [] OTHER -> <<>>

\* A call that ended: the function returned (list: the names it returns)
\* or threw msg, the handler built its envelope, the locals are gone.
Result(r, fn, msg, list) ==
  [r EXCEPT !.pc = "done", !.c = 0, !.h = 0, !.q = 0, !.fn = fn, !.msg = msg,
            !.list = list, !.out = HandlerText(r.kind, fn, msg, list)]

\* Call p goes on as r.
Goes(p, r) == procs' = [procs EXCEPT ![p] = r]
\* Call p, whose record is r, ends.
Returns(p, r, msg, list) == Goes(p, Result(r, "return", msg, list))
Throws(p, r, stage, e) ==
  Goes(p, Result(r, "throw", Thrown(r.kind, r.name, stage, e), {}))

----------------------------------------------------------------------------
\* MongoDBManager.connect up to its await (lines 13-15), called by call p
\* whose record is r: either a client is constructed and its connect() is
\* pending (ioPc), or nothing is done and the caller's await is settled.
Connect(p, r, ioPc, readyPc) ==
  IF NeedsClient(client)
  THEN /\ FreeIds # {}
       /\ client' = Min(FreeIds)
       /\ cstate' = [cstate EXCEPT ![Min(FreeIds)] = "connecting"]
       /\ Goes(p, [r EXCEPT !.pc = ioPc, !.c = Min(FreeIds)])
  ELSE /\ UNCHANGED <<client, cstate>>
       /\ Goes(p, [r EXCEPT !.pc = readyPc])

\* A tool handler is invoked: list-collections, create-collection(x) or
\* drop-collection(x); the tool function runs to its first await.
Invoke(p, k, x) ==
  /\ ~exited /\ NoMicrotask /\ IsNext(p)
  /\ k \in ToolKinds
  /\ x \in (IF k = "list" THEN {""} ELSE Names)
  /\ Connect(p, [IdleProc EXCEPT !.kind = k, !.name = x],
             IF k = "list" THEN "connInner" ELSE "connOuter",
             IF k = "list" THEN "atInner" ELSE "atOuter")
  /\ UNCHANGED <<db, colls, exited, http>>

Stage(r) == IF r.pc \in {"connInner", "atInner", "listIO"} THEN "inner" ELSE "outer"

\* this.client.connect() resolves; line 16 runs.
ConnectOk(p) ==
  LET r == procs[p] IN
  /\ ~exited /\ r.pc \in {"connOuter", "connInner"}
  /\ cstate' = [cstate EXCEPT ![r.c] = IF @ = "connecting" THEN "connected" ELSE @]
  /\ IF client = 0
     THEN Throws(p, r, Stage(r), ErrNullClient) /\ db' = db
     ELSE /\ db' = client
          /\ Goes(p, [r EXCEPT !.c = 0,
                       !.pc = IF r.pc = "connInner" THEN "atInner" ELSE "atOuter"])
  /\ UNCHANGED <<client, colls, exited, http>>

\* this.client.connect() rejects; connect() rethrows with client still set.
ConnectFail(p) ==
  LET r == procs[p] IN
  /\ ~exited /\ r.pc \in {"connOuter", "connInner"}
  /\ cstate' = [cstate EXCEPT ![r.c] = IF @ = "connecting" THEN "failed" ELSE @]
  /\ Throws(p, r, Stage(r), ErrConnect)
  /\ UNCHANGED <<client, db, colls, exited, http>>

\* createCollection/dropCollection after `await mongoManager.connect()`:
\* getDb (lines 57, 76), then listCollections() up to its first await.
StepOuter(p) ==
  LET r == procs[p] IN
  /\ ~exited /\ r.pc = "atOuter"
  /\ IF GetDbThrows(db)
     THEN Throws(p, r, "outer", ErrNotConnected) /\ UNCHANGED <<client, cstate>>
     ELSE Connect(p, [r EXCEPT !.h = db], "connInner", "atInner")
  /\ UNCHANGED <<db, colls, exited, http>>

\* listCollections after `await mongoManager.connect()`: getDb (line 46),
\* then the listing is requested (line 47).
StepInner(p) ==
  LET r == procs[p] IN
  /\ ~exited /\ r.pc = "atInner"
  /\ IF GetDbThrows(db)
     THEN Throws(p, r, "inner", ErrNotConnected)
     ELSE Goes(p, [r EXCEPT !.pc = "listIO", !.q = db])
  /\ UNCHANGED <<client, db, cstate, colls, exited, http>>

\* The listing arrives (line 47); lines 48, 61-66, 80-85 run.
ListOk(p) ==
  LET r == procs[p] IN
  /\ ~exited /\ r.pc = "listIO" /\ cstate[r.q] = "connected"
  /\ CASE r.kind = "list" -> Returns(p, r, <<>>, colls)
       [] r.kind = "create" ->
            IF Includes(colls, r.name) THEN Returns(p, r, MsgExists(r.name), {})
            ELSE Goes(p, [r EXCEPT !.pc = "storeIO", !.q = r.h, !.nstore = @ + 1])
       [] r.kind = "drop" ->
            IF ~Includes(colls, r.name) THEN Returns(p, r, MsgMissing(r.name), {})
            ELSE Goes(p, [r EXCEPT !.pc = "storeIO", !.q = r.h, !.nstore = @ + 1])
  /\ UNCHANGED <<client, db, cstate, colls, exited, http>>

\* The listing fails in the driver.
ListFail(p) ==
  LET r == procs[p] IN
  /\ ~exited /\ r.pc = "listIO"
  /\ Throws(p, r, "inner", ErrDriver)
  /\ UNCHANGED <<client, db, cstate, colls, exited, http>>

\* db.createCollection(x) is answered by the store (line 66): a collection
\* that exists by now is refused.
CreateDone(p) ==
  LET r == procs[p] IN
  /\ ~exited /\ r.pc = "storeIO" /\ r.kind = "create" /\ cstate[r.q] = "connected"
  /\ IF r.name \in colls
     THEN Throws(p, r, "outer", ErrExists) /\ colls' = colls
     ELSE Returns(p, r, MsgCreated(r.name), {}) /\ colls' = colls \cup {r.name}
  /\ UNCHANGED <<client, db, cstate, exited, http>>

\* db.dropCollection(x) is answered by the store (line 85).
DropDone(p) ==
  LET r == procs[p] IN
  /\ ~exited /\ r.pc = "storeIO" /\ r.kind = "drop" /\ cstate[r.q] = "connected"
  /\ Returns(p, r, MsgDropped(r.name), {})
  /\ colls' = colls \ {r.name}
  /\ UNCHANGED <<client, db, cstate, exited, http>>

\* db.dropCollection(x) of a collection that is gone by now: the store may
\* also answer "ns not found" (it depends on the server and driver version).
DropMissing(p) ==
  LET r == procs[p] IN
  /\ ~exited /\ r.pc = "storeIO" /\ r.kind = "drop" /\ cstate[r.q] = "connected"
  /\ r.name \notin colls
  /\ Throws(p, r, "outer", ErrNsNotFound)
  /\ UNCHANGED <<client, db, cstate, colls, exited, http>>

\* The create or drop fails in the driver.
StoreFail(p) ==
  LET r == procs[p] IN
  /\ ~exited /\ r.pc = "storeIO"
  /\ Throws(p, r, "outer", ErrDriver)
  /\ UNCHANGED <<client, db, cstate, colls, exited, http>>

----------------------------------------------------------------------------
\* cleanup() has returned in call p: a direct call ends, a signal handler
\* has process.exit(0) queued behind its `await cleanup()`.
CleanedUp(p, r) ==
  IF r.kind = "signal" THEN Goes(p, [r EXCEPT !.pc = "atExit", !.c = 0, !.fn = "return"])
  ELSE Returns(p, r, <<>>, {})

\* Faulty variant of the test of disconnect: isConnected() instead of the
\* client alone, so a client that has not finished connecting is not closed.
HoldsConnected(cl, d) == cl # 0 /\ d # 0

\* disconnect(), line 21: there is a client to close.
HoldsClient(cl, d) == cl # 0

\* MongoDBManager.disconnect up to its await (lines 21-22).
Disconnect(p, r) ==
  /\ ~exited /\ NoMicrotask /\ IsNext(p)
  /\ IF HoldsClient(client, db) THEN Goes(p, [r EXCEPT !.pc = "closeIO", !.c = client])
     ELSE CleanedUp(p, r)
  /\ UNCHANGED <<client, db, cstate, colls, exited, http>>

\* cleanup() is called (mongo-tools.ts exports it).
Cleanup(p) == Disconnect(p, [IdleProc EXCEPT !.kind = "cleanup"])

\* SIGINT or SIGTERM arrives: the handler calls cleanup().
Signal(p) == Disconnect(p, [IdleProc EXCEPT !.kind = "signal"])

\* lines 23-24: what disconnect leaves in the manager after close().
Cleared == [client |-> 0, db |-> 0]

\* this.client.close() resolves; lines 23-24 run and cleanup() returns.
CloseOk(p) ==
  LET r == procs[p] IN
  /\ ~exited /\ r.pc = "closeIO"
  /\ cstate' = [cstate EXCEPT ![r.c] = "closed"]
  /\ client' = Cleared.client
  /\ db' = Cleared.db
  /\ CleanedUp(p, r)
  /\ UNCHANGED <<colls, exited, http>>

\* this.client.close() rejects: disconnect, cleanup and the signal handler
\* reject in turn; lines 23-24 and process.exit(0) are not reached.
CloseFail(p) ==
  LET r == procs[p] IN
  /\ ~exited /\ r.pc = "closeIO"
  /\ Goes(p, Result(r, "throw", ErrClose, {}))
  /\ UNCHANGED <<client, db, cstate, colls, exited, http>>

\* process.exit(0) in the signal handler, after `await cleanup()`.
Exit(p) ==
  LET r == procs[p] IN
  /\ ~exited /\ r.pc = "atExit"
  /\ exited' = TRUE
  /\ Goes(p, [r EXCEPT !.pc = "exited"])
  /\ UNCHANGED <<client, db, cstate, colls, http>>

----------------------------------------------------------------------------
\* part_000: the HTTP tool handlers.  A handler touches no shared state, so
\* one invocation is one step: http records its inputs (the arguments and
\* what the remote services answer) and its result.

\* What a fetch can come to: the transport fails (fetch rejects), the status
\* is not a success, the body is not JSON, or a JSON body arrives.
NetFailures == {"neterr", "status", "badjson"}
ErrFetch == "fetch failed"
ErrStatus == "HTTP error! status"
ErrJson == "Unexpected token in JSON"
ErrNullProp == "Cannot read properties of null"
ErrNotFunction == "periods.map is not a function"

\* JavaScript's `s || d` on an optional string: absent and "" are both falsy.
OrElse(s, d) == IF s = "" THEN d ELSE s
\* An optional number: has says the field is present.
NoNum == [has |-> FALSE, v |-> 0]
Num(n) == [has |-> TRUE, v |-> n]
\* JavaScript's truthiness of an optional number: absent and 0 are falsy.
TruthyNum(f) == f.has /\ f.v # 0

\* The result of a handler: it returned an envelope holding the one text
\* block `text`, or it threw err; nreq counts the requests it made.
Envelope(text, nreq) == [thrown |-> FALSE, blocks |-> <<text>>, nreq |-> nreq]
Thrown2Dispatch(err, nreq) == [thrown |-> TRUE, blocks |-> <<>>, err |-> err, nreq |-> nreq]

\* ---- get-current-location (lines 105-149)
\* The JSON bodies of the geolocation service: null, or an object.
GeoNull ==
  [kind |-> "null", latitude |-> NoNum, longitude |-> NoNum, city |-> "",
   region |-> "", country_name |-> ""]
Coords == {NoNum, Num(0), Num(41)}
GeoBodies ==
  {GeoNull} \cup
  [kind : {"obj"}, latitude : Coords, longitude : Coords, city : {"", "Chicago"},
   region : {"", "Illinois"}, country_name : {"US"}]
GeoResponses ==
  {[net |-> n, body |-> GeoNull] : n \in NetFailures} \cup
  {[net |-> "ok", body |-> b] : b \in GeoBodies}

\* line 120: `if (data.latitude && data.longitude)`.
HasLocation(data) == TruthyNum(data.latitude) /\ TruthyNum(data.longitude)

GeoError(detail) == [kind |-> "Error getting current location:", detail |-> detail]

GetCurrentLocation(resp) ==
  CASE resp.net = "neterr" -> Envelope(GeoError(ErrFetch), 1)
    [] resp.net = "status" -> Envelope(GeoError(ErrStatus), 1)
    [] resp.net = "badjson" -> Envelope(GeoError(ErrJson), 1)
    [] resp.body.kind = "null" -> Envelope(GeoError(ErrNullProp), 1)
    [] HasLocation(resp.body) ->
         Envelope([kind |-> "Current location:",
                   latitude |-> resp.body.latitude.v,
                   longitude |-> resp.body.longitude.v,
                   city |-> OrElse(resp.body.city, "Unknown"),
                   region |-> OrElse(resp.body.region, "Unknown"),
                   country |-> OrElse(resp.body.country_name, "Unknown")], 1)
    [] OTHER ->
         Envelope([kind |-> "Unable to determine current location from IP address"], 1)

GetCurrentLocationTool ==
  /\ \E resp \in GeoResponses :
       http' = [tool |-> "get-current-location", geo |-> resp,
                res |-> GetCurrentLocation(resp)]
  /\ UNCHANGED <<client, db, cstate, colls, procs, exited>>

\* ---- get-courses (lines 29-45, 157-217)
CourseNull == [isNull |-> TRUE, courseTitle |-> ""]
Courses == {CourseNull, [isNull |-> FALSE, courseTitle |-> "Algebra"],
            [isNull |-> FALSE, courseTitle |-> ""]}
\* Most elements of a courseList.
MaxCourses == 2
CourseLists == UNION {[1..n -> Courses] : n \in 0..MaxCourses}
\* The JSON bodies of the courses endpoint: a falsy value, or an object
\* whose data.courseList is absent, an array, or something else.
CoursesNull == [kind |-> "null", hasData |-> FALSE, listType |-> "absent", courseList |-> <<>>]
CoursesBodies ==
  {CoursesNull,
   [kind |-> "obj", hasData |-> FALSE, listType |-> "absent", courseList |-> <<>>],
   [kind |-> "obj", hasData |-> TRUE, listType |-> "absent", courseList |-> <<>>],
   [kind |-> "obj", hasData |-> TRUE, listType |-> "other", courseList |-> <<>>]} \cup
  {[kind |-> "obj", hasData |-> TRUE, listType |-> "array", courseList |-> l] :
     l \in CourseLists}
CoursesResponses ==
  {[net |-> n, body |-> CoursesNull] : n \in NetFailures} \cup
  {[net |-> "ok", body |-> b] : b \in CoursesBodies}

\* fetchWithBearerToken (lines 29-45): every failure is the null sentinel.
FetchWithBearerToken(resp) == IF resp.net = "ok" THEN resp.body ELSE CoursesNull

\* lines 176-178: `coursesData.data && Array.isArray(coursesData.data.courseList)`.
HasCourseList(data) == data.hasData /\ data.listType = "array"

GetCourses(resp) ==
  LET coursesData == FetchWithBearerToken(resp) IN
  CASE coursesData.kind = "null" ->
         Envelope([kind |-> "Failed to retrieve courses data"], 1)
    [] HasCourseList(coursesData)
         /\ \E i \in DOMAIN coursesData.courseList : coursesData.courseList[i].isNull ->
         Envelope([kind |-> "Error processing courses data:", detail |-> ErrNullProp,
                   raw |-> coursesData], 1)
    [] HasCourseList(coursesData) /\ Len(coursesData.courseList) > 0 ->
         Envelope([kind |-> "Full course list:", list |-> coursesData.courseList], 1)
    [] OTHER ->
         Envelope([kind |-> "Courses data received (raw format):", raw |-> coursesData], 1)

GetCoursesTool ==
  /\ \E resp \in CoursesResponses :
       http' = [tool |-> "get-courses", courses |-> resp, res |-> GetCourses(resp)]
  /\ UNCHANGED <<client, db, cstate, colls, procs, exited>>

\* ---- get-forecast (lines 11-27, 324-398)
\* The arguments the schema admits (a few of them).
Latitudes == {0, 41}
Longitudes == {-88, 100}

\* The JSON bodies of the grid-point endpoint: null, or an object whose
\* properties and properties.forecast may be missing.
PointsNull == [kind |-> "null", hasProps |-> FALSE, forecast |-> ""]
PointsBodies ==
  {PointsNull,
   [kind |-> "obj", hasProps |-> FALSE, forecast |-> ""],
   [kind |-> "obj", hasProps |-> TRUE, forecast |-> ""],
   [kind |-> "obj", hasProps |-> TRUE, forecast |-> "https://api.weather.gov/gridpoints/forecast"]}
PointsResponses ==
  {[net |-> n, body |-> PointsNull] : n \in NetFailures} \cup
  {[net |-> "ok", body |-> b] : b \in PointsBodies}

\* A forecast period as the service sends it; an element may also be null.
PeriodNull ==
  [isNull |-> TRUE, name |-> "", temperature |-> NoNum, temperatureUnit |-> "",
   windSpeed |-> "", windDirection |-> "", shortForecast |-> ""]
Periods ==
  {PeriodNull,
   [isNull |-> FALSE, name |-> "Tonight", temperature |-> Num(72), temperatureUnit |-> "F",
    windSpeed |-> "5 mph", windDirection |-> "NW", shortForecast |-> "Clear"],
   [isNull |-> FALSE, name |-> "", temperature |-> NoNum, temperatureUnit |-> "",
    windSpeed |-> "", windDirection |-> "", shortForecast |-> ""],
   [isNull |-> FALSE, name |-> "Monday", temperature |-> Num(0), temperatureUnit |-> "C",
    windSpeed |-> "", windDirection |-> "", shortForecast |-> "Snow"]}
\* Most periods of a forecast.
MaxPeriods == 2
PeriodLists == UNION {[1..n -> Periods] : n \in 0..MaxPeriods}
\* The JSON bodies of the forecast endpoint: null, or an object whose
\* properties.periods is absent, an array, a number or a string.
ForecastNull == [kind |-> "null", hasProps |-> FALSE, ptype |-> "absent", periods |-> <<>>]
ForecastBodies ==
  {ForecastNull,
   [kind |-> "obj", hasProps |-> FALSE, ptype |-> "absent", periods |-> <<>>],
   [kind |-> "obj", hasProps |-> TRUE, ptype |-> "absent", periods |-> <<>>],
   [kind |-> "obj", hasProps |-> TRUE, ptype |-> "number", periods |-> <<>>],
   [kind |-> "obj", hasProps |-> TRUE, ptype |-> "string", periods |-> <<>>]} \cup
  {[kind |-> "obj", hasProps |-> TRUE, ptype |-> "array", periods |-> l] : l \in PeriodLists}
ForecastResponses ==
  {[net |-> n, body |-> ForecastNull] : n \in NetFailures} \cup
  {[net |-> "ok", body |-> b] : b \in ForecastBodies}
\* No second request was made.
NoResponse == [net |-> "none", body |-> ForecastNull]

\* makeNWSRequest (lines 11-27): every failure is the null sentinel.
MakeNWSRequest(resp, null) == IF resp.net = "ok" THEN resp.body ELSE null

\* line 340: `pointsData.properties?.forecast`.
ForecastUrl(pointsData) == IF pointsData.hasProps THEN pointsData.forecast ELSE ""

\* line 365: `forecastData.properties?.periods || []`: what is iterated.
PeriodsOf(forecastData) ==
  IF forecastData.hasProps /\ forecastData.ptype = "array" THEN forecastData.periods
  ELSE <<>>
\* Faulty variant of the test for no periods: without the `|| []` of line
\* 365, an absent periods field is not an empty list.
NoPeriodsOfArray(forecastData) ==
  forecastData.hasProps /\ forecastData.ptype = "array" /\ Len(forecastData.periods) = 0

\* line 366: `periods.length === 0`; a number has no length, a string has one.
NoPeriods(forecastData) ==
  ~forecastData.hasProps \/ forecastData.ptype = "absent"
  \/ (forecastData.ptype = "array" /\ Len(forecastData.periods) = 0)

\* lines 378-386: one period rendered.
FormatPeriod(period) ==
  [name |-> OrElse(period.name, "Unknown"),
   temperature |-> IF TruthyNum(period.temperature) THEN period.temperature ELSE NoNum,
   temperatureUnit |-> OrElse(period.temperatureUnit, "F"),
   windSpeed |-> OrElse(period.windSpeed, "Unknown"),
   windDirection |-> period.windDirection,
   shortForecast |-> OrElse(period.shortForecast, "No forecast available")]

\* The handler after the first request (lines 329-350): the envelope it
\* returns, or Second if it goes on to request the forecast.
Second == [thrown |-> FALSE, blocks |-> <<>>, nreq |-> 1]
FirstStage(latitude, longitude, pointsData) ==
  CASE pointsData.kind = "null" ->
         Envelope([kind |-> "Failed to retrieve grid point data for coordinates:",
                   latitude |-> latitude, longitude |-> longitude,
                   hint |-> "This location may not be supported by the NWS API"], 1)
    [] ForecastUrl(pointsData) = "" ->
         Envelope([kind |-> "Failed to get forecast URL from grid point data"], 1)
    [] OTHER -> Second

\* The handler after the second request (lines 354-397).
SecondStage(latitude, longitude, forecastData) ==
  CASE forecastData.kind = "null" ->
         Envelope([kind |-> "Failed to retrieve forecast data"], 2)
    [] NoPeriods(forecastData) ->
         Envelope([kind |-> "No forecast periods available"], 2)
    [] forecastData.ptype # "array" -> Thrown2Dispatch(ErrNotFunction, 2)
    [] \E i \in DOMAIN forecastData.periods : forecastData.periods[i].isNull ->
         Thrown2Dispatch(ErrNullProp, 2)
    [] OTHER ->
         Envelope([kind |-> "Forecast for", latitude |-> latitude, longitude |-> longitude,
                   periods |-> [i \in DOMAIN PeriodsOf(forecastData) |->
                                  FormatPeriod(PeriodsOf(forecastData)[i])]], 2)

GetForecastTool ==
  /\ \E latitude \in Latitudes, longitude \in Longitudes, pts \in PointsResponses :
       LET first == FirstStage(latitude, longitude, MakeNWSRequest(pts, PointsNull)) IN
       IF first = Second
       THEN \E fc \in ForecastResponses :
              http' = [tool |-> "get-forecast", latitude |-> latitude,
                       longitude |-> longitude, points |-> pts, forecast |-> fc,
                       res |-> SecondStage(latitude, longitude,
                                           MakeNWSRequest(fc, ForecastNull))]
       ELSE http' = [tool |-> "get-forecast", latitude |-> latitude,
                     longitude |-> longitude, points |-> pts, forecast |-> NoResponse,
                     res |-> first]
  /\ UNCHANGED <<client, db, cstate, colls, procs, exited>>

----------------------------------------------------------------------------
HttpIdle == [tool |-> "none"]

Init ==
  /\ client = 0
  /\ db = 0
  /\ cstate = [c \in ClientIds |-> "none"]
  /\ colls = {}
  /\ procs = [p \in Procs |-> IdleProc]
  /\ exited = FALSE
  /\ http = HttpIdle

\* The tool handlers alone, with a database that is reachable and a driver
\* that does not fail.
ToolNext ==
  \/ \E p \in Procs, k \in ToolKinds, x \in RaceNames \cup {""} : Invoke(p, k, x)
  \/ \E p \in Procs : StepOuter(p)
  \/ \E p \in Procs : StepInner(p)
  \/ \E p \in Procs : ConnectOk(p)
  \/ \E p \in Procs : ListOk(p)
  \/ \E p \in Procs : CreateDone(p)
  \/ \E p \in Procs : DropDone(p)
  \/ \E p \in Procs : DropMissing(p)

ToolSpec == Init /\ [][ToolNext]_vars

\* The driver fails to connect or to close.
ConnFailure ==
  \/ \E p \in Procs : ConnectFail(p)
  \/ \E p \in Procs : CloseFail(p)

\* The driver fails a query.
QueryFailure ==
  \/ \E p \in Procs : ListFail(p)
  \/ \E p \in Procs : StoreFail(p)

\* The module mongo-tools.ts under any caller of its exports: the tool
\* functions and cleanup(), with a driver that may fail.
Next ==
  \/ ToolNext
  \/ \E p \in Procs : Cleanup(p)
  \/ \E p \in Procs : CloseOk(p)
  \/ ConnFailure
  \/ QueryFailure

Spec == Init /\ [][Next]_vars

\* The server process of part_000: the tool handlers and the two signal
\* handlers, the only callers of cleanup(), with a database that may be
\* unreachable and a close that may fail.  (A failed query changes nothing
\* but the result of the call that made it.)
ProgNext ==
  \/ ToolNext
  \/ \E p \in Procs : Signal(p)
  \/ \E p \in Procs : CloseOk(p)
  \/ \E p \in Procs : Exit(p)
  \/ ConnFailure

ProgSpec == Init /\ [][ProgNext]_vars

\* The HTTP tool handlers, with remote services that answer anything.
HttpNext ==
  \/ GetCurrentLocationTool
  \/ GetCoursesTool
  \/ GetForecastTool

HttpSpec == Init /\ [][HttpNext]_vars

\* No call is in flight.
Quiet == \A p \in Procs : procs[p].pc \in {"idle", "done"}

\* The tool functions and cleanup() called one after the other, with a
\* database that is reachable and a driver that does not fail.
SeqNext ==
  \/ \E p \in Procs, k \in ToolKinds, x \in Names \cup {""} : Quiet /\ Invoke(p, k, x)
  \/ \E p \in Procs : Quiet /\ Cleanup(p)
  \/ \E p \in Procs : StepOuter(p)
  \/ \E p \in Procs : StepInner(p)
  \/ \E p \in Procs : ConnectOk(p)
  \/ \E p \in Procs : ListOk(p)
  \/ \E p \in Procs : CreateDone(p)
  \/ \E p \in Procs : DropDone(p)
  \/ \E p \in Procs : CloseOk(p)

SeqSpec == Init /\ [][SeqNext]_vars

----------------------------------------------------------------------------
\* The claims.

\* Call p ends in this step.
Ends(p) == procs[p].pc \notin {"idle", "done"} /\ procs'[p].pc = "done"
\* The message holds the token t.
Holds(msg, t) == \E i \in DOMAIN msg : msg[i] = t
\* The call before call p.
Before(p) == IF p > 1 THEN procs[p - 1] ELSE IdleProc

\* C1: of two createCollection(x) calls run one after the other on a
\* database without x, the first calls the store's create and returns
\* "Collection 'x' created successfully"; the second returns "Collection 'x'
\* already exists", calls no create, does not throw and leaves the
\* collections as they are.
C1_CreateTwice ==
  [][\A p \in Procs :
       (procs[p].kind = "create" /\ Ends(p)) =>
         LET x == procs[p].name IN
         /\ x \notin colls =>
              /\ procs'[p].fn = "return"
              /\ procs'[p].msg = <<"Collection", x, "created successfully">>
              /\ procs'[p].nstore = 1
              /\ colls' = colls \cup {x}
         /\ (Before(p).kind = "create" /\ Before(p).name = x
             /\ Before(p).msg = <<"Collection", x, "created successfully">>) =>
              /\ procs'[p].fn = "return"
              /\ procs'[p].msg = <<"Collection", x, "already exists">>
              /\ procs'[p].out = <<"Collection", x, "already exists">>
              /\ procs'[p].nstore = 0
              /\ colls' = colls]_vars

\* Two createCollection("a") calls in a row have ended, the first having
\* created the collection, the second having found it.
C1_Witness ==
  \E p \in Procs :
    /\ Before(p).kind = "create" /\ Before(p).name = "a" /\ Before(p).nstore = 1
    /\ Before(p).msg = <<"Collection", "a", "created successfully">>
    /\ procs[p].kind = "create" /\ procs[p].name = "a" /\ procs[p].pc = "done"
    /\ procs[p].msg = <<"Collection", "a", "already exists">>

\* C2: every tool handler ends by returning an envelope with exactly one
\* text block, whatever the remote service answers; none throws.
C2_NeverThrows ==
  http.tool # "none" => ~http.res.thrown /\ Len(http.res.blocks) = 1

\* C3: with a reachable database and tool calls only, no call is past
\* connect() while the connection is still being established, and none
\* fails with "Database not connected. Call connect() first.".
C3_ConnectedBeforeQuery ==
  \A p \in Procs :
    /\ procs[p].pc \in {"atOuter", "atInner", "listIO", "storeIO"} =>
         client # 0 /\ cstate[client] = "connected"
    /\ ~Holds(procs[p].msg, "Database not connected. Call connect() first.")

C5_DropAbsent ==
  [][\A p \in Procs :
       (procs[p].kind = "drop" /\ Ends(p) /\ procs[p].name \notin colls) =>
          /\ procs'[p].fn = "return"
          /\ procs'[p].msg = <<"Collection", procs[p].name, "does not exist">>
          /\ procs'[p].out = <<"Collection", procs[p].name, "does not exist">>
          /\ procs'[p].nstore = 0
          /\ colls' = colls]_vars

\* "a" was created, dropped, and dropped again; "b", never created, was
\* dropped after that.
C5_Witness ==
  \E p \in Procs :
    /\ p > 3
    /\ procs[p - 3].kind = "create" /\ procs[p - 3].name = "a"
    /\ procs[p - 3].msg = <<"Collection", "a", "created successfully">>
    /\ procs[p - 2].kind = "drop" /\ procs[p - 2].name = "a"
    /\ procs[p - 2].msg = <<"Collection", "a", "dropped successfully">>
    /\ procs[p - 1].kind = "drop" /\ procs[p - 1].name = "a"
    /\ procs[p - 1].msg = <<"Collection", "a", "does not exist">>
    /\ procs[p].kind = "drop" /\ procs[p].name = "b"
    /\ procs[p].msg = <<"Collection", "b", "does not exist">>

\* C6: when the process has exited through a signal handler, that handler's
\* cleanup() had returned, the manager holds no client and every client
\* that was constructed is closed.
C6_ClosedAtExit ==
  exited =>
    /\ \E p \in Procs :
         procs[p].kind = "signal" /\ procs[p].pc = "exited" /\ procs[p].fn = "return"
    /\ client = 0 /\ db = 0
    /\ \A c \in ClientIds : ~Open(c)

\* The process has exited with a client closed on the way and a tool call
\* still waiting for the driver.
C6_Witness ==
  /\ exited
  /\ \E c \in ClientIds : cstate[c] = "closed"
  /\ \E p \in Procs :
       procs[p].kind \in ToolKinds /\ procs[p].pc \in {"connOuter", "listIO", "storeIO"}

\* The grid-point request of the last get-forecast call gave null.
GridNull == http.points.net # "ok" \/ http.points.body.kind = "null"
\* ... it gave an object without properties.forecast.
GridNoUrl ==
  ~GridNull /\ (~http.points.body.hasProps \/ http.points.body.forecast = "")
\* The forecast request was made and gave null.
ForecastIsNull ==
  /\ ~GridNull /\ ~GridNoUrl
  /\ (http.forecast.net # "ok" \/ http.forecast.body.kind = "null")
\* The forecast request gave an object whose properties.periods is a list.
ForecastList ==
  /\ ~GridNull /\ ~GridNoUrl /\ ~ForecastIsNull
  /\ http.forecast.body.hasProps /\ http.forecast.body.ptype = "array"
\* ... it gave an object with no periods: none listed, or an empty list.
ForecastEmpty ==
  /\ ~GridNull /\ ~GridNoUrl /\ ~ForecastIsNull
  /\ \/ ~http.forecast.body.hasProps
     \/ http.forecast.body.ptype = "absent"
     \/ (ForecastList /\ Len(http.forecast.body.periods) = 0)
Text == http.res.blocks[1]

\* C7: get-forecast stops at the first failing stage with that stage's
\* message: null grid point, the coordinates and the hint, one request;
\* no forecast URL, its message, one request; null forecast, its message;
\* zero periods, its message; and the "Forecast for" text, with one block
\* per period, only for a forecast with at least one period.
C7_ForecastStages ==
  http.tool = "get-forecast" =>
    /\ GridNull =>
         /\ ~http.res.thrown /\ http.res.nreq = 1
         /\ Text.kind = "Failed to retrieve grid point data for coordinates:"
         /\ Text.latitude = http.latitude /\ Text.longitude = http.longitude
         /\ Text.hint = "This location may not be supported by the NWS API"
    /\ GridNoUrl =>
         /\ ~http.res.thrown /\ http.res.nreq = 1
         /\ Text.kind = "Failed to get forecast URL from grid point data"
    /\ ForecastIsNull =>
         /\ ~http.res.thrown /\ http.res.nreq = 2
         /\ Text.kind = "Failed to retrieve forecast data"
    /\ ForecastEmpty =>
         /\ ~http.res.thrown /\ http.res.nreq = 2
         /\ Text.kind = "No forecast periods available"
    /\ (~http.res.thrown /\ Text.kind = "Forecast for") =>
         /\ ForecastList /\ Len(http.forecast.body.periods) >= 1
         /\ Len(Text.periods) = Len(http.forecast.body.periods)
         /\ Text.latitude = http.latitude /\ Text.longitude = http.longitude
    /\ (ForecastList /\ Len(http.forecast.body.periods) >= 1
        /\ \A i \in DOMAIN http.forecast.body.periods :
             ~http.forecast.body.periods[i].isNull) =>
         ~http.res.thrown /\ Text.kind = "Forecast for"

\* A forecast of two periods was rendered.
C7_Witness ==
  /\ http.tool = "get-forecast" /\ ~http.res.thrown
  /\ Text.kind = "Forecast for" /\ Len(Text.periods) = 2

\* C8: after a successful geolocation response, get-current-location gives
\* the "Current location:" block exactly when latitude and longitude are
\* both present, whatever number they are, and "Unable to determine ..."
\* exactly when one of them is absent.
C8_LocationWhenPresent ==
  (http.tool = "get-current-location" /\ http.geo.net = "ok"
   /\ http.geo.body.kind = "obj") =>
    LET both == http.geo.body.latitude.has /\ http.geo.body.longitude.has IN
    /\ both <=> Text.kind = "Current location:"
    /\ ~both <=> Text.kind = "Unable to determine current location from IP address"

\* C9: at every await point the manager is disconnected (client and db
\* null) or connected (client and db set).
C9_TwoStates == (client = 0 /\ db = 0) \/ (client # 0 /\ db # 0)

\* C10: a createCollection(x) that passed its existence check and whose
\* create reaches the store when x exists by now (a concurrent creator came
\* first) ends by throwing "Failed to create collection 'x': ...", the
\* store's duplicate error, not by returning "already exists".
C10_DuplicateCreateThrows ==
  [][\A p \in Procs :
       (procs[p].kind = "create" /\ procs[p].pc = "storeIO" /\ Ends(p)
        /\ procs[p].name \in colls) =>
          /\ procs'[p].fn = "throw"
          /\ procs'[p].msg = <<"Failed to create collection", procs[p].name>> \o ErrExists
          /\ procs'[p].out =
               <<"Error creating collection:", "Failed to create collection",
                 procs[p].name>> \o ErrExists
          /\ colls' = colls]_vars

\* Two overlapping createCollection("a") calls both called the store's
\* create; one created the collection, the other threw the duplicate error.
C10_Witness ==
  \E p, q \in Procs :
    /\ p # q
    /\ procs[p].kind = "create" /\ procs[p].name = "a" /\ procs[p].nstore = 1
    /\ procs[p].msg = <<"Collection", "a", "created successfully">>
    /\ procs[q].kind = "create" /\ procs[q].name = "a" /\ procs[q].nstore = 1
    /\ procs[q].fn = "throw"
    /\ procs[q].msg = <<"Failed to create collection", "a">> \o ErrExists

====
